---- MODULE Spec2Model ----
(***************************************************************************)
(* Briefing retrieval / fallback layer of climate-insight                  *)
(* (lib/api/briefing.ts): getBriefingIndex, getBriefing and                *)
(* getBriefingsByDate, each as the sequence of fetches it awaits.          *)
(*                                                                         *)
(* The locale-aware accessors are modelled.  The locale-less variant of    *)
(* the same file (src/fe/src/lib/api/briefing.ts) is the same code with    *)
(* basePath fixed to briefing and no fallback fetch, which is what the     *)
(* model does for locale "ko".                                             *)
(***************************************************************************)
EXTENDS Integers, Sequences, FiniteSets, TLC

\* ------------------------------------------------------------------ bounds

\* How many dates the accessors are called with.
NumDates == 1

DateName == <<"2025-01-02", "2025-01-01", "2024-12-31", "2024-12-30">>

Dates == {DateName[i] : i \in 1..NumDates}

\* The dates an index document may list (getRecentBriefings, getLatestBriefing).
IndexDates == {DateName[1], DateName[2]}

\* getRecentBriefings is called with days in -1..MaxDays.
MaxDays == 3

\* The user clicks at most MaxClicks citations.
MaxClicks == 2

\* The ids of the citations of a briefing.
CiteIds == {"source-1", "source-2"}

\* "ko" is the default, "en" the one partitioned locale, "ja" any other tag.
Locales == {"ko", "en", "ja"}

Periods == {"morning", "afternoon"}

\* The period argument left out.
NoPeriod == "undefined"

\* ------------------------------------------------------------------ storage

\* A storage key: dateOrKey as the date and the suffix it ends with.
\* The dates getLatestBriefing may ask for: today, yesterday, and an older
\* date an index may name as its latest.
Today == DateName[1]

Yesterday == DateName[2]

LatestDates == {Today, Yesterday, DateName[3]}

Keys == [name : Dates \cup IndexDates \cup LatestDates, suffix : {"", "-morning", "-afternoon"}]

\* A bare date as a key.
Bare(d) == [name |-> d, suffix |-> ""]

IndexKey == [name |-> "index", suffix |-> ""]

\* The value of filename before its assignment.
NoFile == [name |-> "", suffix |-> ""]

Paths == {"briefing", "briefing/en"}

\* `${path}/${key}.json`
Url(path, key) == [path |-> path, name |-> key.name, suffix |-> key.suffix]

DocUrls == {Url(p, k) : p \in Paths, k \in Keys}

IndexUrls == {Url(p, IndexKey) : p \in Paths}

Urls == DocUrls \cup IndexUrls

\* What a fetch of one URL does: "ok" is a 2xx response with a parsable body,
\* "badjson" a 2xx response whose body res.json() rejects, "notok" a non-2xx
\* response, "throw" a fetch that rejects (transport failure).
Outcomes == {"ok", "notok", "throw", "badjson"}

\* An index URL may also answer 2xx with a body that parses to null.
IndexOutcomes == Outcomes \cup {"nullbody"}

\* Faulty variant: the status of the response never looked at.
OkUnchecked(outcome) == TRUE

\* res.ok
Ok(outcome) == outcome \in {"ok", "badjson", "nullbody"}

Null == [kind |-> "null"]

List(items) == [kind |-> "list", items |-> items]

VARIABLES
    storage,    \* URL -> outcome of fetching it (read-only while the page runs)
    op,         \* the accessor the caller awaits, "idle" when none
    args,       \* its arguments
    ret,        \* how it completed: pending, value (with val) or thrown
    log,        \* the URLs fetched since the call started, in order
    inflight,   \* URLs requested and not yet answered
    gbpc,       \* getBriefing: the fetch it is at, "none" outside a call
    gbargs,     \* getBriefing: dateOrKey, period, locale
    filename,   \* getBriefing: the local variable filename
    gbret,      \* getBriefing: the value its promise resolved to
    bdpc,       \* getBriefingsByDate: the step it is at
    briefings,  \* getBriefingsByDate: the local array briefings
    ixpc,       \* getBriefingIndex: the fetch it is at
    body,       \* index URL -> the parsed content of the index document there
    misdated,   \* document URLs whose date field is not the date of the filename
    rbpc,       \* getRecentBriefings: the step it is at
    index,      \* getRecentBriefings: the local index
    tasks,      \* getRecentBriefings: the getBriefing calls under Promise.all
    lbpc,       \* getLatestBriefing: the step it is at
    prev,       \* the result and fetches of the call before, when it is repeated
    ppc,            \* BriefingPage: what the page is waiting for
    pageBriefings,  \* BriefingPage state: briefings
    selectedPeriod, \* BriefingPage state: selectedPeriod
    availableDates, \* BriefingPage state: availableDates
    selectedDate,   \* BriefingPage state: selectedDate
    loading,        \* BriefingPage state: loading
    error,          \* BriefingPage state: error
    highlightedId,  \* BriefingPage state: highlightedId
    timers,         \* the pending setTimeout callbacks, in the order they fire
    clicks          \* how many citation clicks there were

vars == <<storage, op, args, ret, log, inflight, gbpc, gbargs, filename, gbret,
          bdpc, briefings, ixpc, body, misdated, rbpc, index, tasks, lbpc, prev,
          ppc, pageBriefings, selectedPeriod, availableDates, selectedDate, loading,
          error, highlightedId, timers, clicks>>

\* The state of the BriefingPage component.
pagestate == <<pageBriefings, selectedPeriod, availableDates, selectedDate, loading, error>>

citevars == <<highlightedId, timers, clicks>>

pagevars == <<ppc, pagestate, citevars>>

\* The storage content beyond the outcomes: it never changes.
content == <<body, misdated>>

rbvars == <<rbpc, index, tasks, lbpc>>

\* An optional field of a parsed document: absent, or present with a value.
None == <<>>

Some(x) == <<x>>

\* JSON null where a string may stand.
JsonNull == "null"

\* What `||` takes for true among the values of a string field.
Truthy(v) == v \notin {JsonNull, ""}

\* The date lists an index document may carry.
DateLists ==
    {<<>>} \cup {<<d>> : d \in IndexDates}
           \cup {l \in IndexDates \X IndexDates : l[1] # l[2]}

\* The parsed index documents: every field of the document is optional.
Bodies ==
    [available_dates : {None} \cup {Some(l) : l \in DateLists},
     latest : {None, Some(JsonNull), Some("")} \cup {Some(d) : d \in IndexDates},
     dates_detail : {None, Some("detail")},
     total_briefings : {None, Some(2)}]

\* An index document of one date that names it as the latest.
DefaultBody ==
    [available_dates |-> Some(<<DateName[1]>>), latest |-> Some(DateName[1]),
     dates_detail |-> None, total_briefings |-> Some(1)]

\* The date field of a stored document that does not carry its filename's date.
OtherDate == "1999-12-31"

\* The value res.json() resolves to: the document stored at the URL.
Json(url) ==
    [kind |-> "doc", path |-> url.path, name |-> url.name, suffix |-> url.suffix,
     date |-> IF url \in misdated THEN OtherDate ELSE url.name]

gbvars == <<gbpc, gbargs, filename, gbret>>

bdvars == <<bdpc, briefings>>

NoArgs == [dateOrKey |-> IndexKey, period |-> NoPeriod, locale |-> "ko"]

Pending == [kind |-> "pending", val |-> Null]

Value(v) == [kind |-> "value", val |-> v]

\* No call came before the running one.
NoPrev == [kind |-> "none"]

Thrown == [kind |-> "thrown", val |-> Null]

\* ------------------------------------------------------------------ paths

\* Faulty variant: the "en" subpath forgotten.
getBriefingPathFlat(locale) == "briefing"

getBriefingPath(locale) == IF locale = "en" THEN "briefing/en" ELSE "briefing"

\* Faulty variant: the retry goes to the locale path again.
fallbackPathEn == "briefing/en"

fallbackPath == "briefing"

\* `${dateOrKey}-${period}`
WithPeriod(dateOrKey, period) ==
    [name |-> dateOrKey.name, suffix |-> dateOrKey.suffix \o "-" \o period]

\* dateOrKey.endsWith("-morning") || dateOrKey.endsWith("-afternoon")
HasPeriodSuffix(dateOrKey) == dateOrKey.suffix \in {"-morning", "-afternoon"}

\* Faulty variant: the fallback fetch not limited to "en".
NeedsFallbackAnyLocale(outcome, locale) == ~Ok(outcome)

\* `!res.ok && locale === "en"`: the condition of every fallback fetch.
NeedsFallback(outcome, locale) == ~Ok(outcome) /\ locale = "en"

\* ------------------------------------------------------------------ init

\* The URLs that are not listed respond 404.
Stored(files) == [u \in Urls |-> IF u \in DOMAIN files THEN files[u] ELSE "notok"]

\* undefined / null / "" in the page's state.
NoPeriodSelected == "undefined"

NoError == "null"

NoDate == ""

NoId == "null"

\* The useState initial values (lines 154-160).
InitialPageState ==
    /\ pageBriefings = <<>>
    /\ selectedPeriod = NoPeriodSelected
    /\ availableDates = <<>>
    /\ selectedDate = NoDate
    /\ loading = TRUE
    /\ error = NoError
    /\ highlightedId = NoId
    /\ timers = <<>>
    /\ clicks = 0

\* No page is rendered.
PageUnmounted == ppc = "none" /\ InitialPageState

\* No accessor is running.
IdleFrames ==
    /\ op = "idle"
    /\ args = NoArgs
    /\ ret = Pending
    /\ log = <<>>
    /\ inflight = {}
    /\ gbpc = "none"
    /\ gbargs = NoArgs
    /\ filename = NoFile
    /\ gbret = Pending
    /\ bdpc = "none"
    /\ briefings = <<>>
    /\ ixpc = "none"
    /\ rbpc = "none"
    /\ lbpc = "none"
    /\ index = Null
    /\ tasks = <<>>
    /\ prev = NoPrev
    /\ PageUnmounted

\* The documents of one date vary while the index is absent, or the index
\* varies while no document is stored: the document accessors read only the
\* document URLs of the date they are given and the index accessor only the
\* two index URLs.
Init ==
    /\ \/ \E d \in Dates :
             \E files \in [{u \in DocUrls : u.name = d} -> Outcomes] : storage = Stored(files)
       \/ \E files \in [IndexUrls -> Outcomes] : storage = Stored(files)
    /\ body = [u \in IndexUrls |-> DefaultBody]
    /\ misdated = {}
    /\ IdleFrames

\* ------------------------------------------------------------------ getBriefing

\* Faulty variant: an explicit period replaces the suffix the key carries.
EnterPeriodFirst(a) ==
    IF a.period # NoPeriod
    THEN [pc |-> "file", filename |-> WithPeriod(a.dateOrKey, a.period)]
    ELSE IF HasPeriodSuffix(a.dateOrKey)
    THEN [pc |-> "file", filename |-> a.dateOrKey]
    ELSE [pc |-> "afternoon", filename |-> NoFile]

\* Faulty variant: the period argument ignored, the call takes the no-period chain.
EnterIgnoringPeriod(a) ==
    IF HasPeriodSuffix(a.dateOrKey)
    THEN [pc |-> "file", filename |-> a.dateOrKey]
    ELSE [pc |-> "afternoon", filename |-> NoFile]

\* The first statement the body reaches: the branch on dateOrKey and period.
\* The result is the fetch to issue and the value of filename.
Enter(a) ==
    IF HasPeriodSuffix(a.dateOrKey)
    THEN [pc |-> "file", filename |-> a.dateOrKey]
    ELSE IF a.period # NoPeriod
    THEN [pc |-> "file", filename |-> WithPeriod(a.dateOrKey, a.period)]
    ELSE [pc |-> "afternoon", filename |-> NoFile]

\* Faulty variant: morning tried before afternoon.
GBUrlMorningFirst(pc, a, fn) ==
    CASE pc = "afternoon"   -> Url(getBriefingPath(a.locale), WithPeriod(a.dateOrKey, "morning"))
      [] pc = "afternoonFb" -> Url(fallbackPath, WithPeriod(a.dateOrKey, "morning"))
      [] pc = "morning"     -> Url(getBriefingPath(a.locale), WithPeriod(a.dateOrKey, "afternoon"))
      [] pc = "morningFb"   -> Url(fallbackPath, WithPeriod(a.dateOrKey, "afternoon"))
      [] pc = "file"        -> Url(getBriefingPath(a.locale), fn)
      [] pc = "fileFb"      -> Url(fallbackPath, fn)

\* The URL of the fetch at each position.
GBUrl(pc, a, fn) ==
    CASE pc = "afternoon"   -> Url(getBriefingPath(a.locale), WithPeriod(a.dateOrKey, "afternoon"))
      [] pc = "afternoonFb" -> Url(fallbackPath, WithPeriod(a.dateOrKey, "afternoon"))
      [] pc = "morning"     -> Url(getBriefingPath(a.locale), WithPeriod(a.dateOrKey, "morning"))
      [] pc = "morningFb"   -> Url(fallbackPath, WithPeriod(a.dateOrKey, "morning"))
      [] pc = "file"        -> Url(getBriefingPath(a.locale), fn)
      [] pc = "fileFb"      -> Url(fallbackPath, fn)

GBFetchPcs == {"afternoon", "afternoonFb", "morning", "morningFb", "file", "fileFb"}

\* Faulty variant: the catch block rethrows.
GBCatchRethrow == [kind |-> "thrown", val |-> Null]

\* catch (error) { console.error(...); return null; }
GBCatch == Value(Null)

\* return await res.json(), inside the try block.
GBReturnJson(url, outcome) ==
    IF outcome = "badjson" THEN GBCatch
    ELSE IF outcome = "nullbody" THEN Value(Null)
    ELSE Value(Json(url))

\* Faulty variant: no default-locale retry of the last candidate.
GBAfterNoFileFallback(pc, outcome, locale) ==
    CASE pc = "afternoon" ->
            IF NeedsFallback(outcome, locale) THEN "afternoonFb"
            ELSE IF Ok(outcome) THEN "done" ELSE "morning"
      [] pc = "afternoonFb" -> IF Ok(outcome) THEN "done" ELSE "morning"
      [] pc = "morning" ->
            IF NeedsFallback(outcome, locale) THEN "morningFb"
            ELSE IF Ok(outcome) THEN "done" ELSE "file"
      [] pc = "morningFb" -> IF Ok(outcome) THEN "done" ELSE "file"
      [] pc = "file" -> "done"
      [] pc = "fileFb" -> "done"

\* Faulty variant: the chain ends at the morning candidate, the bare file never tried.
GBAfterNoLegacy(pc, outcome, locale) ==
    CASE pc = "afternoon" ->
            IF NeedsFallback(outcome, locale) THEN "afternoonFb"
            ELSE IF Ok(outcome) THEN "done" ELSE "morning"
      [] pc = "afternoonFb" -> IF Ok(outcome) THEN "done" ELSE "morning"
      [] pc = "morning" -> IF NeedsFallback(outcome, locale) THEN "morningFb" ELSE "done"
      [] pc = "morningFb" -> "done"
      [] pc = "file" -> IF NeedsFallback(outcome, locale) THEN "fileFb" ELSE "done"
      [] pc = "fileFb" -> "done"

\* Faulty variant: the morning candidate fetched whatever the afternoon one answered.
GBAfterIgnoringOk(pc, outcome, locale) ==
    CASE pc = "afternoon" ->
            IF NeedsFallback(outcome, locale) THEN "afternoonFb" ELSE "morning"
      [] pc = "afternoonFb" -> "morning"
      [] pc = "morning" ->
            IF NeedsFallback(outcome, locale) THEN "morningFb"
            ELSE IF Ok(outcome) THEN "done" ELSE "file"
      [] pc = "morningFb" -> IF Ok(outcome) THEN "done" ELSE "file"
      [] pc = "file" -> IF NeedsFallback(outcome, locale) THEN "fileFb" ELSE "done"
      [] pc = "fileFb" -> "done"

\* After the positions that precede the last candidate: the next fetch, or "done".
GBAfter(pc, outcome, locale) ==
    CASE pc = "afternoon" ->
            IF NeedsFallback(outcome, locale) THEN "afternoonFb"
            ELSE IF Ok(outcome) THEN "done" ELSE "morning"
      [] pc = "afternoonFb" -> IF Ok(outcome) THEN "done" ELSE "morning"
      [] pc = "morning" ->
            IF NeedsFallback(outcome, locale) THEN "morningFb"
            ELSE IF Ok(outcome) THEN "done" ELSE "file"
      [] pc = "morningFb" -> IF Ok(outcome) THEN "done" ELSE "file"
      [] pc = "file" -> IF NeedsFallback(outcome, locale) THEN "fileFb" ELSE "done"
      [] pc = "fileFb" -> "done"

\* The promise's value once the response of the fetch at pc is in.
GBResult(pc, url, outcome, locale) ==
    IF outcome = "throw" THEN GBCatch
    ELSE IF GBAfter(pc, outcome, locale) # "done" THEN Pending
    ELSE IF Ok(outcome) THEN GBReturnJson(url, outcome)
    ELSE Value(Null)

\* A call of getBriefing starts: by the page, or by getBriefingsByDate.
GBStart(a) ==
    /\ gbpc' = Enter(a).pc
    /\ gbargs' = a
    /\ filename' = Enter(a).filename
    /\ gbret' = Pending

\* await fetch(...): the request goes out.
GBIssue ==
    /\ gbpc \in GBFetchPcs
    /\ inflight = {}
    /\ inflight' = {GBUrl(gbpc, gbargs, filename)}
    /\ log' = Append(log, GBUrl(gbpc, gbargs, filename))
    /\ UNCHANGED <<pagevars, content, rbvars, prev, storage, op, args, ret, gbvars, bdvars, ixpc>>

\* The response arrives and the body runs to its next await or to its return.
GBRespond ==
    /\ gbpc \in GBFetchPcs
    /\ inflight # {}
    /\ LET url == GBUrl(gbpc, gbargs, filename)
           outcome == storage[url]
           r == GBResult(gbpc, url, outcome, gbargs.locale)
       IN /\ inflight' = {}
          /\ gbret' = r
          /\ gbpc' = IF r = Pending THEN GBAfter(gbpc, outcome, gbargs.locale) ELSE "done"
          \* line 99: filename = dateOrKey, before the legacy fetch
          /\ filename' = IF gbpc \in {"morning", "morningFb"} /\ r = Pending
                          THEN gbargs.dateOrKey ELSE filename
    /\ UNCHANGED <<pagevars, content, rbvars, prev, storage, op, args, ret, log, gbargs, bdvars, ixpc>>

\* The page calls getBriefing(dateOrKey, period, locale).
GetBriefingCall(keys, periods, locales) ==
    /\ op = "idle"
    /\ \E k \in keys, p \in periods, l \in locales :
          LET a == [dateOrKey |-> k, period |-> p, locale |-> l]
          IN /\ args' = a
             /\ GBStart(a)
    /\ op' = "getBriefing"
    /\ ret' = Pending
    /\ log' = <<>>
    /\ UNCHANGED <<pagevars, content, rbvars, prev, storage, inflight, bdvars, ixpc>>

\* The page calls getBriefing with any key of a date, any period, any locale.
CallGetBriefing ==
    GetBriefingCall({k \in Keys : k.name \in Dates}, Periods \cup {NoPeriod}, Locales)

\* The promise of a getBriefing call made by the page settles.
ReturnGetBriefing ==
    /\ op = "getBriefing"
    /\ ret = Pending
    /\ gbpc = "done"
    /\ ret' = gbret
    /\ gbpc' = "none"
    /\ UNCHANGED <<pagevars, content, rbvars, prev, storage, op, args, log, inflight, gbargs, filename, gbret, bdvars, ixpc>>

\* ------------------------------------------------------------------ getBriefingsByDate

\* Faulty variant: unshift instead of push.
UnshiftIfTruthy(list, v) == IF v # Null THEN <<v>> \o list ELSE list

\* `if (morning) briefings.push(morning)`: null is the one falsy value.
PushIfTruthy(list, v) == IF v # Null THEN Append(list, v) ELSE list

\* Faulty variant: the legacy file tried whatever was found.
NeedsLegacyAlways(list) == TRUE

\* `if (briefings.length === 0)`: the gate of the legacy fetch (line 138).
NeedsLegacy(list) == Len(list) = 0

\* The URL of the legacy fetch at each position (lines 140 and 142).
BDUrl(pc, a) ==
    IF pc = "legacy" THEN Url(getBriefingPath(a.locale), a.dateOrKey)
    ELSE Url(fallbackPath, a.dateOrKey)

BDFetchPcs == {"legacy", "legacyFb"}

\* The page calls getBriefingsByDate(date, locale); the body runs to its
\* first await, getBriefing(date, "morning", locale).
\* Faulty variant: the array kept at module scope, never emptied.
LeftoverBriefings == briefings

\* const briefings: DailyBriefing[] = [] (line 125): a fresh array per call.
NewBriefings == <<>>

CallGetBriefingsByDate ==
    /\ op = "idle"
    /\ \E d \in Dates, l \in Locales :
          LET date == [name |-> d, suffix |-> ""]
          IN /\ args' = [dateOrKey |-> date, period |-> NoPeriod, locale |-> l]
             /\ GBStart([dateOrKey |-> date, period |-> "morning", locale |-> l])
    /\ op' = "getBriefingsByDate"
    /\ ret' = Pending
    /\ log' = <<>>
    /\ briefings' = NewBriefings
    /\ bdpc' = "morning"
    /\ UNCHANGED <<pagevars, content, rbvars, prev, storage, inflight, ixpc>>

\* morning is in (line 131); getBriefing(date, "afternoon", locale) starts.
\* The await is outside any try block: a rejection rejects this call.
BDAfterMorning ==
    /\ op = "getBriefingsByDate"
    /\ bdpc = "morning"
    /\ gbpc = "done"
    /\ IF gbret.kind = "thrown"
       THEN /\ ret' = Thrown
            /\ bdpc' = "done"
            /\ gbpc' = "none"
            /\ UNCHANGED <<briefings, gbargs, filename, gbret>>
       ELSE /\ briefings' = PushIfTruthy(briefings, gbret.val)
            /\ bdpc' = "afternoon"
            /\ GBStart([dateOrKey |-> args.dateOrKey, period |-> "afternoon",
                        locale |-> args.locale])
            /\ UNCHANGED ret
    /\ UNCHANGED <<pagevars, content, rbvars, prev, storage, op, args, log, inflight, ixpc>>

\* afternoon is in (line 135); the legacy file is tried when nothing was found.
BDAfterAfternoon ==
    /\ op = "getBriefingsByDate"
    /\ bdpc = "afternoon"
    /\ gbpc = "done"
    /\ gbpc' = "none"
    /\ IF gbret.kind = "thrown"
       THEN /\ ret' = Thrown
            /\ bdpc' = "done"
            /\ UNCHANGED briefings
       ELSE LET pushed == PushIfTruthy(briefings, gbret.val)
            IN /\ briefings' = pushed
               /\ bdpc' = IF NeedsLegacy(pushed) THEN "legacy" ELSE "done"
               /\ ret' = IF NeedsLegacy(pushed) THEN Pending ELSE Value(List(pushed))
    /\ UNCHANGED <<pagevars, content, rbvars, prev, storage, op, args, log, inflight, gbargs, filename, gbret, ixpc>>

BDIssue ==
    /\ bdpc \in BDFetchPcs
    /\ inflight = {}
    /\ inflight' = {BDUrl(bdpc, args)}
    /\ log' = Append(log, BDUrl(bdpc, args))
    /\ UNCHANGED <<pagevars, content, rbvars, prev, storage, op, args, ret, gbvars, bdvars, ixpc>>

\* Faulty variant: the legacy body pushed without the res.ok test.
BDLegacyResultUnchecked(list, url, outcome) ==
    IF outcome \in {"ok", "notok"} THEN Append(list, Json(url)) ELSE list

\* briefings once the legacy response is in; a rejected fetch or an
\* unparsable body is swallowed by `catch { }`.
BDLegacyResult(list, url, outcome) ==
    IF outcome = "ok" THEN Append(list, Json(url)) ELSE list

BDRespond ==
    /\ bdpc \in BDFetchPcs
    /\ inflight # {}
    /\ inflight' = {}
    /\ LET url == BDUrl(bdpc, args)
           outcome == storage[url]
       IN IF bdpc = "legacy" /\ outcome # "throw" /\ NeedsFallback(outcome, args.locale)
          THEN /\ bdpc' = "legacyFb"
               /\ UNCHANGED <<briefings, ret>>
          ELSE /\ bdpc' = "done"
               /\ briefings' = BDLegacyResult(briefings, url, outcome)
               /\ ret' = Value(List(BDLegacyResult(briefings, url, outcome)))
    /\ UNCHANGED <<pagevars, content, rbvars, prev, storage, op, args, log, gbvars, ixpc>>

\* ------------------------------------------------------------------ getBriefingIndex

IXUrl(pc) ==
    IF pc = "index" THEN Url(getBriefingPath(args.locale), IndexKey)
    ELSE Url(fallbackPath, IndexKey)

IXFetchPcs == {"index", "indexFb"}

\* Faulty variant: the exception leaves the accessor.
IXCatchRethrow == [kind |-> "thrown", val |-> Null]

\* catch (error) { console.error(...); return null; }
IXCatch == Value(Null)

\* Faulty variant: latest taken from the explicit field alone.
LatestExplicitOnly(data) ==
    IF data.latest # None /\ Truthy(data.latest[1]) THEN data.latest[1] ELSE JsonNull

\* latest: data.latest || (data.available_dates?.[0] ?? null)
LatestOf(data) ==
    IF data.latest # None /\ Truthy(data.latest[1]) THEN data.latest[1]
    ELSE IF data.available_dates # None /\ Len(data.available_dates[1]) > 0
    THEN data.available_dates[1][1]
    ELSE JsonNull

\* Lines 33-38: the object built from the parsed document.
Normalise(data) ==
    [kind |-> "index",
     dates |-> IF data.available_dates # None THEN data.available_dates[1] ELSE <<>>,
     latest |-> LatestOf(data),
     dates_detail |-> data.dates_detail,
     total_briefings |-> data.total_briefings]

\* Lines 31-38: the parsed document, normalised.
IXReturnJson(url, outcome) ==
    IF outcome = "badjson" THEN IXCatch
    \* data is null: data.available_dates throws a TypeError inside the try block
    ELSE IF outcome = "nullbody" THEN IXCatch
    ELSE Value(Normalise(body[url]))

\* The promise's value once the response of the fetch at pc is in.
IXResult(pc, url, outcome, locale) ==
    IF outcome = "throw" THEN IXCatch
    ELSE IF pc = "index" /\ NeedsFallback(outcome, locale) THEN Pending
    ELSE IF ~Ok(outcome) THEN Value(Null)
    ELSE IXReturnJson(url, outcome)

CallGetBriefingIndex ==
    /\ op = "idle"
    /\ \E l \in Locales : args' = [dateOrKey |-> IndexKey, period |-> NoPeriod, locale |-> l]
    /\ op' = "getBriefingIndex"
    /\ ret' = Pending
    /\ log' = <<>>
    /\ ixpc' = "index"
    /\ UNCHANGED <<pagevars, content, rbvars, prev, storage, inflight, gbvars, bdvars>>

IXIssue ==
    /\ ixpc \in IXFetchPcs
    /\ inflight = {}
    /\ inflight' = {IXUrl(ixpc)}
    /\ log' = Append(log, IXUrl(ixpc))
    /\ UNCHANGED <<pagevars, content, rbvars, prev, storage, op, args, ret, gbvars, bdvars, ixpc>>

IXRespond ==
    /\ op = "getBriefingIndex"
    /\ ixpc \in IXFetchPcs
    /\ inflight # {}
    /\ inflight' = {}
    /\ LET r == IXResult(ixpc, IXUrl(ixpc), storage[IXUrl(ixpc)], args.locale)
       IN /\ ret' = r
          /\ ixpc' = IF r = Pending THEN "indexFb" ELSE "done"
    /\ UNCHANGED <<pagevars, content, rbvars, prev, storage, op, args, log, gbvars, bdvars>>

\* ------------------------------------------------------------------ getRecentBriefings

Min(a, b) == IF a < b THEN a ELSE b

Max(a, b) == IF a > b THEN a ELSE b

\* Array.prototype.slice(0, end): a negative end counts from the end of the array.
Slice(seq, end) ==
    SubSeq(seq, 1, IF end < 0 THEN Max(Len(seq) + end, 0) ELSE Min(end, Len(seq)))

\* getRecentBriefings(days, locale) is called; it awaits getBriefingIndex(locale).
GetRecentBriefingsCall(daysSet, locales) ==
    /\ op = "idle"
    /\ \E n \in daysSet, l \in locales :
          args' = [dateOrKey |-> IndexKey, period |-> NoPeriod, locale |-> l, days |-> n]
    /\ op' = "getRecentBriefings"
    /\ ret' = Pending
    /\ log' = <<>>
    /\ ixpc' = "index"
    /\ rbpc' = "index"
    /\ index' = Null
    /\ tasks' = <<>>
    /\ UNCHANGED <<pagevars, lbpc, content, prev, storage, inflight, gbvars, bdvars>>

\* The response of an index fetch arrives; the index is in once
\* getBriefingIndex returns.
RBIndexRespond ==
    /\ op = "getRecentBriefings"
    /\ ixpc \in IXFetchPcs
    /\ inflight # {}
    /\ inflight' = {}
    /\ LET r == IXResult(ixpc, IXUrl(ixpc), storage[IXUrl(ixpc)], args.locale)
       IN /\ ixpc' = IF r = Pending THEN "indexFb" ELSE "done"
          /\ index' = r.val
          /\ rbpc' = IF r = Pending THEN "index" ELSE "gotIndex"
    /\ UNCHANGED <<pagevars, lbpc, content, prev, storage, op, args, ret, log, gbvars, bdvars, tasks>>

\* getBriefing(date, undefined, locale) run to its first await: the fetch is out.
StartTask(date, locale) ==
    LET a == [dateOrKey |-> Bare(date), period |-> NoPeriod, locale |-> locale]
    IN [a |-> a, pc |-> Enter(a).pc, filename |-> Enter(a).filename,
        ret |-> Pending, rank |-> 0]

\* The fetch a task waits for.
TaskUrl(t) == GBUrl(t.pc, t.a, t.filename)

\* Lines 186-193: without dates the result is empty; otherwise map() calls
\* getBriefing for each of the sliced dates in turn, and each call runs to its
\* first fetch before the next one starts.
RBStart ==
    /\ op = "getRecentBriefings"
    /\ rbpc = "gotIndex"
    /\ IF index = Null \/ Len(index.dates) = 0
       THEN /\ ret' = Value(List(<<>>))
            /\ rbpc' = "done"
            /\ UNCHANGED <<tasks, log, inflight>>
       ELSE LET recentDates == Slice(index.dates, args.days)
                started == [i \in 1..Len(recentDates) |->
                               StartTask(recentDates[i], args.locale)]
            IN /\ tasks' = started
               /\ log' = log \o [i \in 1..Len(started) |-> TaskUrl(started[i])]
               /\ inflight' = {TaskUrl(started[i]) : i \in 1..Len(started)}
               /\ rbpc' = "all"
               /\ ret' = ret
    /\ UNCHANGED <<pagevars, lbpc, content, prev, storage, op, args, index, gbvars, bdvars, ixpc>>

\* How many of the tasks have settled.
Settled(ts) == Cardinality({i \in 1..Len(ts) : ts[i].pc = "done"})

\* A task whose response is in: at its next fetch, or settled.
TaskAfter(t, outcome, settledBefore) ==
    LET r == GBResult(t.pc, TaskUrl(t), outcome, t.a.locale)
    IN [a |-> t.a,
        pc |-> IF r = Pending THEN GBAfter(t.pc, outcome, t.a.locale) ELSE "done",
        filename |-> IF t.pc \in {"morning", "morningFb"} /\ r = Pending
                     THEN t.a.dateOrKey ELSE t.filename,
        ret |-> r,
        rank |-> IF r = Pending THEN 0 ELSE settledBefore + 1]

\* The response of one task's fetch arrives, whichever comes first; the task
\* runs to its next fetch or to its return.
RBRespond ==
    /\ op = "getRecentBriefings"
    /\ rbpc = "all"
    /\ \E i \in 1..Len(tasks) :
          /\ tasks[i].pc \in GBFetchPcs
          /\ TaskUrl(tasks[i]) \in inflight
          /\ LET t == TaskAfter(tasks[i], storage[TaskUrl(tasks[i])], Settled(tasks))
             IN /\ tasks' = [tasks EXCEPT ![i] = t]
                /\ IF t.pc = "done"
                   THEN /\ inflight' = inflight \ {TaskUrl(tasks[i])}
                        /\ log' = log
                   ELSE /\ inflight' = (inflight \ {TaskUrl(tasks[i])}) \cup {TaskUrl(t)}
                        /\ log' = Append(log, TaskUrl(t))
    /\ UNCHANGED <<pagevars, lbpc, content, prev, storage, op, args, ret, index, rbpc, gbvars, bdvars, ixpc>>

\* Faulty variant: the call goes on once one promise has settled.
AnySettled(ts) == \E i \in 1..Len(ts) : ts[i].pc = "done"

\* await Promise.all(...): every promise has settled.
AllSettled(ts) == \A i \in 1..Len(ts) : ts[i].pc = "done"

\* Faulty variant: the values in the order the promises settled.
PromiseAllAsSettled(ts) ==
    [k \in 1..Len(ts) |-> (CHOOSE t \in {ts[i] : i \in 1..Len(ts)} : t.rank = k).ret]

\* Promise.all: the values in the order of the promises given.
PromiseAll(ts) == [i \in 1..Len(ts) |-> ts[i].ret]

\* b !== null
IsBriefing(b) == b # Null

Vals(results) == [i \in 1..Len(results) |-> results[i].val]

\* Lines 191-195: every promise has settled; a rejection rejects the call,
\* otherwise the nulls are filtered out.
RBReturn ==
    /\ op = "getRecentBriefings"
    /\ rbpc = "all"
    /\ AllSettled(tasks)
    /\ LET results == PromiseAll(tasks)
       IN ret' = IF \E i \in 1..Len(results) : results[i] = Thrown
                 THEN Thrown
                 ELSE Value(List(SelectSeq(Vals(results), IsBriefing)))
    /\ rbpc' = "done"
    /\ UNCHANGED <<pagevars, lbpc, content, prev, storage, op, args, log, inflight, index, tasks,
                   gbvars, bdvars, ixpc>>

\* ------------------------------------------------------------------ getLatestBriefing

\* getLatestBriefing(locale) is called; it awaits getBriefingIndex(locale).
GetLatestBriefingCall(locales) ==
    /\ op = "idle"
    /\ \E l \in locales :
          args' = [dateOrKey |-> IndexKey, period |-> NoPeriod, locale |-> l]
    /\ op' = "getLatestBriefing"
    /\ ret' = Pending
    /\ log' = <<>>
    /\ ixpc' = "index"
    /\ lbpc' = "index"
    /\ index' = Null
    /\ UNCHANGED <<pagevars, content, prev, storage, inflight, gbvars, bdvars, rbpc, tasks>>

\* The response of an index fetch arrives; the index is in once
\* getBriefingIndex returns.
LBIndexRespond ==
    /\ op = "getLatestBriefing"
    /\ ixpc \in IXFetchPcs
    /\ inflight # {}
    /\ inflight' = {}
    /\ LET r == IXResult(ixpc, IXUrl(ixpc), storage[IXUrl(ixpc)], args.locale)
       IN /\ ixpc' = IF r = Pending THEN "indexFb" ELSE "done"
          /\ index' = r.val
          /\ lbpc' = IF r = Pending THEN "index" ELSE "gotIndex"
    /\ UNCHANGED <<pagevars, content, prev, storage, op, args, ret, log, gbvars, bdvars, rbpc, tasks>>

\* The arguments of getBriefing(date, undefined, locale).
DateArgs(date, locale) == [dateOrKey |-> Bare(date), period |-> NoPeriod, locale |-> locale]

\* Faulty variant: the index's latest date never used.
HasLatestNever(ix) == FALSE

\* index?.latest
HasLatest(ix) == ix # Null /\ Truthy(ix.latest)

\* Lines 163-169: with a latest date getBriefing(index.latest) is the result;
\* otherwise today's date is tried.
LBStart ==
    /\ op = "getLatestBriefing"
    /\ lbpc = "gotIndex"
    /\ IF HasLatest(index)
       THEN /\ GBStart(DateArgs(index.latest, args.locale))
            /\ lbpc' = "latest"
       ELSE /\ GBStart(DateArgs(Today, args.locale))
            /\ lbpc' = "today"
    /\ UNCHANGED <<pagevars, content, prev, storage, op, args, ret, log, inflight, index,
                   bdvars, ixpc, rbpc, tasks>>

\* The getBriefing call awaited has settled.  The call for the latest date
\* and the one for yesterday are returned as they are; today's is returned
\* if it is a document (lines 171-173), and otherwise yesterday's date is
\* tried (lines 176-177).
LBAfter ==
    /\ op = "getLatestBriefing"
    /\ lbpc \in {"latest", "today", "yesterday"}
    /\ gbpc = "done"
    /\ IF lbpc = "today" /\ gbret = Value(Null)
       THEN /\ GBStart(DateArgs(Yesterday, args.locale))
            /\ lbpc' = "yesterday"
            /\ ret' = ret
       ELSE /\ ret' = gbret
            /\ lbpc' = "done"
            /\ UNCHANGED gbvars
    /\ UNCHANGED <<pagevars, content, prev, storage, op, args, log, inflight, index,
                   bdvars, ixpc, rbpc, tasks>>

\* ------------------------------------------------------------------ BriefingPage

\* The messages of setError.
NoDataError == "no briefing data"

NoDataForDateError == "no briefing data for the date"

LoadError == "error while loading"

\* The period field of a document: that of its file, none for a bare-date file.
PeriodOf(doc) ==
    IF doc.suffix = "-morning" THEN "morning"
    ELSE IF doc.suffix = "-afternoon" THEN "afternoon"
    ELSE NoPeriodSelected

\* The accessor awaited has returned and its frame is gone.
AccessorReturns ==
    /\ op' = "idle"
    /\ args' = NoArgs
    /\ ret' = Pending
    /\ log' = <<>>
    /\ gbpc' = "none"
    /\ gbargs' = NoArgs
    /\ filename' = NoFile
    /\ gbret' = Pending
    /\ bdpc' = "none"
    /\ briefings' = <<>>
    /\ ixpc' = "none"

\* The effect of [selectedDate] with a date (lines 190-197): fetchBriefings
\* sets loading, clears error and awaits getBriefingsByDate(selectedDate).
FetchBriefings(date) ==
    /\ loading' = TRUE
    /\ error' = NoError
    /\ op' = "getBriefingsByDate"
    /\ args' = [dateOrKey |-> Bare(date), period |-> NoPeriod, locale |-> "ko"]
    /\ GBStart([dateOrKey |-> Bare(date), period |-> "morning", locale |-> "ko"])
    /\ ret' = Pending
    /\ log' = <<>>
    /\ briefings' = NewBriefings
    /\ bdpc' = "morning"
    /\ ixpc' = "none"
    /\ ppc' = "briefings"

\* The page mounts: the effect of [] runs fetchIndex, which awaits
\* getBriefingIndex() (lines 168-171).
PageMount ==
    /\ ppc = "none"
    /\ op = "idle"
    /\ ppc' = "index"
    /\ op' = "getBriefingIndex"
    /\ args' = [dateOrKey |-> IndexKey, period |-> NoPeriod, locale |-> "ko"]
    /\ ret' = Pending
    /\ log' = <<>>
    /\ ixpc' = "index"
    /\ UNCHANGED <<pagestate, citevars, content, rbvars, prev, storage, inflight,
                   gbvars, bdvars>>

\* getBriefingIndex has returned (lines 172-184).  With dates the first one
\* is selected and the effect of [selectedDate] fetches its briefings;
\* without, or on an exception, the error is set and loading ends.
PageIndexDone ==
    /\ ppc = "index"
    /\ op = "getBriefingIndex"
    /\ ret # Pending
    /\ IF ret.kind = "value" /\ ret.val # Null /\ Len(ret.val.dates) > 0
       THEN /\ availableDates' = ret.val.dates
            /\ selectedDate' = ret.val.dates[1]
            /\ FetchBriefings(ret.val.dates[1])
       ELSE /\ error' = IF ret.kind = "value" THEN NoDataError ELSE LoadError
            /\ loading' = FALSE
            /\ ppc' = "shown"
            /\ AccessorReturns
            /\ UNCHANGED <<availableDates, selectedDate>>
    /\ UNCHANGED <<pageBriefings, selectedPeriod, citevars, content, rbvars, prev,
                   storage, inflight>>

\* Faulty variant: the finally block missing, loading ended on success only.
LoadingAfterOnSuccessOnly(data) == ~(data.kind = "value" /\ Len(data.val.items) > 0)

\* finally { setLoading(false) } (lines 213-215).
LoadingAfter(data) == FALSE

\* getBriefingsByDate has returned (lines 199-215).
PageBriefingsDone ==
    /\ ppc = "briefings"
    /\ op = "getBriefingsByDate"
    /\ ret # Pending
    /\ IF ret.kind = "value" /\ Len(ret.val.items) > 0
       THEN /\ pageBriefings' = ret.val.items
            /\ selectedPeriod' = PeriodOf(ret.val.items[Len(ret.val.items)])
            /\ error' = error
       ELSE IF ret.kind = "value"
       THEN /\ error' = NoDataForDateError
            /\ pageBriefings' = <<>>
            /\ selectedPeriod' = selectedPeriod
       ELSE /\ error' = LoadError
            /\ UNCHANGED <<pageBriefings, selectedPeriod>>
    /\ loading' = LoadingAfter(ret)
    /\ ppc' = "shown"
    /\ AccessorReturns
    /\ UNCHANGED <<availableDates, selectedDate, citevars, content, rbvars, prev,
                   storage, inflight>>

\* The briefing the page shows (lines 164-166).
CurrentBriefing ==
    IF pageBriefings = <<>> THEN Null
    ELSE IF \E i \in 1..Len(pageBriefings) : PeriodOf(pageBriefings[i]) = selectedPeriod
    THEN pageBriefings[CHOOSE i \in 1..Len(pageBriefings) :
                          /\ PeriodOf(pageBriefings[i]) = selectedPeriod
                          /\ \A j \in 1..(i - 1) : PeriodOf(pageBriefings[j]) # selectedPeriod]
    ELSE pageBriefings[Len(pageBriefings)]

\* The render guards (lines 233-244): the briefing view, with its date
\* select, period buttons and citations, is rendered only past both.
Rendered == ppc # "none" /\ ~loading /\ error = NoError /\ CurrentBriefing # Null

\* The user picks another date in the select (lines 322-325); the effect of
\* [selectedDate] fetches its briefings.
PageSelectDate ==
    /\ Rendered
    /\ \E i \in 1..Len(availableDates) :
          /\ availableDates[i] # selectedDate
          /\ selectedDate' = availableDates[i]
          /\ FetchBriefings(availableDates[i])
    /\ UNCHANGED <<pageBriefings, selectedPeriod, availableDates, citevars, content,
                   rbvars, prev, storage, inflight>>

\* The user clicks the button of another period (lines 343-344).
PageSelectPeriod ==
    /\ Rendered
    /\ Len(pageBriefings) > 1
    /\ \E i \in 1..Len(pageBriefings) :
          /\ PeriodOf(pageBriefings[i]) # selectedPeriod
          /\ selectedPeriod' = PeriodOf(pageBriefings[i])
    /\ UNCHANGED <<ppc, pageBriefings, availableDates, selectedDate, loading, error,
                   citevars, content, rbvars, prev, storage, op, args, ret, log,
                   inflight, gbvars, bdvars, ixpc>>

\* handleCiteClick(id) (lines 220-231): the highlight is set and a timer is
\* scheduled that clears it three seconds later.
CiteClick ==
    /\ Rendered
    /\ clicks < MaxClicks
    /\ \E id \in CiteIds :
          /\ highlightedId' = id
          /\ timers' = Append(timers, [id |-> id, click |-> clicks + 1])
    /\ clicks' = clicks + 1
    /\ UNCHANGED <<ppc, pagestate, content, rbvars, prev, storage, op, args, ret, log,
                   inflight, gbvars, bdvars, ixpc>>

\* The oldest timer fires, all having the same delay: setHighlightedId(null).
TimerFire ==
    /\ timers # <<>>
    /\ highlightedId' = NoId
    /\ timers' = Tail(timers)
    /\ UNCHANGED <<ppc, pagestate, clicks, content, rbvars, prev, storage, op, args, ret,
                   log, inflight, gbvars, bdvars, ixpc>>

\* ------------------------------------------------------------------ next

\* The caller has its result; the next call may start.
Finish ==
    /\ op # "idle"
    /\ ret # Pending
    /\ op' = "idle"
    /\ args' = NoArgs
    /\ ret' = Pending
    /\ log' = <<>>
    /\ gbpc' = "none"
    /\ gbargs' = NoArgs
    /\ filename' = NoFile
    /\ gbret' = Pending
    /\ bdpc' = "none"
    /\ briefings' = <<>>
    /\ ixpc' = "none"
    /\ rbpc' = "none"
    /\ lbpc' = "none"
    /\ index' = Null
    /\ tasks' = <<>>
    /\ prev' = NoPrev
    /\ UNCHANGED <<pagevars, content, storage, inflight>>

Next ==
    \/ CallGetBriefing
    \/ GBIssue
    \/ GBRespond
    \/ ReturnGetBriefing
    \/ CallGetBriefingsByDate
    \/ BDAfterMorning
    \/ BDAfterAfternoon
    \/ BDIssue
    \/ BDRespond
    \/ CallGetBriefingIndex
    \/ IXIssue
    \/ IXRespond
    \/ Finish

Spec == Init /\ [][Next]_vars

\* ------------------------------------------------------------------ index documents

\* The outcome and the content of the two index documents vary; no briefing
\* document is stored.  A URL that does not answer 2xx with JSON has no content.
InitIndex ==
    /\ \E files \in [IndexUrls -> IndexOutcomes] :
          /\ storage = Stored(files)
          /\ body \in {b \in [IndexUrls -> Bodies \cup {DefaultBody}] :
                          \A u \in IndexUrls :
                             IF files[u] = "ok" THEN b[u] \in Bodies ELSE b[u] = DefaultBody}
    /\ misdated = {}
    /\ IdleFrames

NextIndex ==
    \/ CallGetBriefingIndex
    \/ IXIssue
    \/ IXRespond
    \/ Finish

SpecIndex == InitIndex /\ [][NextIndex]_vars

\* ------------------------------------------------------------------ recent briefings

\* The default-locale documents of the dates an index may list.
RecentDocUrls == {u \in DocUrls : u.path = getBriefingPath("ko") /\ u.name \in IndexDates}

RecentOutcomes == {"ok", "notok", "throw"}

\* The index documents as written next to the briefings: a list of dates and
\* its first date as latest.
RecentBodies ==
    {[available_dates |-> None, latest |-> None,
      dates_detail |-> None, total_briefings |-> None]}
    \cup {[available_dates |-> Some(l),
           latest |-> IF l = <<>> THEN None ELSE Some(l[1]),
           dates_detail |-> None, total_briefings |-> Some(Len(l))] : l \in DateLists}

RecentIndexUrl == Url(getBriefingPath("ko"), IndexKey)

\* The default-locale index and the documents of its dates vary; at most one
\* stored document carries a date that is not its filename's.
InitRecent ==
    /\ \E files \in [RecentDocUrls -> RecentOutcomes], ix \in Outcomes :
          /\ storage = Stored(files @@ (RecentIndexUrl :> ix))
          /\ \E b \in IF ix = "ok" THEN RecentBodies ELSE {DefaultBody} :
                body = [u \in IndexUrls |-> IF u = RecentIndexUrl THEN b ELSE DefaultBody]
          /\ misdated \in {{}} \cup {{u} : u \in {v \in RecentDocUrls : files[v] = "ok"}}
    /\ IdleFrames

\* getRecentBriefings(days) with the default locale.
CallGetRecentBriefings == GetRecentBriefingsCall(-1..MaxDays, {"ko"})

\* getBriefing(date) with the default locale, for a date an index may list.
CallGetBriefingOfDate == GetBriefingCall({Bare(d) : d \in IndexDates}, {NoPeriod}, {"ko"})

NextRecent ==
    \/ CallGetRecentBriefings
    \/ IXIssue
    \/ RBIndexRespond
    \/ RBStart
    \/ RBRespond
    \/ RBReturn
    \/ CallGetBriefingOfDate
    \/ GBIssue
    \/ GBRespond
    \/ ReturnGetBriefing
    \/ Finish

SpecRecent == InitRecent /\ [][NextRecent]_vars

\* ------------------------------------------------------------------ latest briefing

\* The default-locale documents of today, yesterday and the older date.
LatestDocUrls == {u \in DocUrls : u.path = getBriefingPath("ko") /\ u.name \in LatestDates}

LatestOutcomes == {"ok", "notok"}

\* The index documents: with or without a list of one date, with or without
\* an explicit latest date.
LatestBodies ==
    [available_dates : {None, Some(<<>>)} \cup {Some(<<d>>) : d \in LatestDates},
     latest : {None, Some(JsonNull)} \cup {Some(d) : d \in LatestDates},
     dates_detail : {None},
     total_briefings : {None}]

\* The default-locale index varies and each document of the three dates is
\* there or not.
InitLatest ==
    /\ \E files \in [LatestDocUrls -> LatestOutcomes], ix \in Outcomes :
          /\ storage = Stored(files @@ (RecentIndexUrl :> ix))
          /\ \E b \in IF ix = "ok" THEN LatestBodies ELSE {DefaultBody} :
                body = [u \in IndexUrls |-> IF u = RecentIndexUrl THEN b ELSE DefaultBody]
    /\ misdated = {}
    /\ IdleFrames

\* getLatestBriefing() with the default locale.
CallGetLatestBriefing == GetLatestBriefingCall({"ko"})

NextLatest ==
    \/ CallGetLatestBriefing
    \/ IXIssue
    \/ LBIndexRespond
    \/ LBStart
    \/ GBIssue
    \/ GBRespond
    \/ LBAfter
    \/ Finish

SpecLatest == InitLatest /\ [][NextLatest]_vars

\* ------------------------------------------------------------------ the page

PageOutcomes == {"ok", "notok", "throw"}

\* The default-locale index and the documents of its dates vary; the page is
\* about to mount.
InitPage ==
    /\ \E files \in [RecentDocUrls -> PageOutcomes], ix \in Outcomes :
          /\ storage = Stored(files @@ (RecentIndexUrl :> ix))
          /\ \E b \in IF ix = "ok" THEN RecentBodies ELSE {DefaultBody} :
                body = [u \in IndexUrls |-> IF u = RecentIndexUrl THEN b ELSE DefaultBody]
    /\ misdated = {}
    /\ IdleFrames

\* What the page and the accessors do on their own.
PageRuns ==
    \/ PageMount
    \/ IXIssue
    \/ IXRespond
    \/ PageIndexDone
    \/ GBIssue
    \/ GBRespond
    \/ BDAfterMorning
    \/ BDAfterAfternoon
    \/ BDIssue
    \/ BDRespond
    \/ PageBriefingsDone

NextPage ==
    \/ PageRuns
    \/ PageSelectDate
    \/ PageSelectPeriod

SpecPage == InitPage /\ [][NextPage]_vars

\* Every request is answered and every continuation runs.
SpecPageFair == SpecPage /\ WF_vars(PageRuns)

\* The page with the citations of the briefing it shows.
NextCite ==
    \/ NextPage
    \/ CiteClick
    \/ TimerFire

SpecCite == InitPage /\ [][NextCite]_vars

\* ------------------------------------------------------------------ a call repeated

TwiceOutcomes == {"ok", "notok"}

\* The default-locale documents are there or not, with their own dates; the
\* default-locale index varies; the storage never changes afterwards.
InitTwice ==
    /\ \E files \in [RecentDocUrls -> TwiceOutcomes], ix \in Outcomes :
          /\ storage = Stored(files @@ (RecentIndexUrl :> ix))
          /\ \E b \in IF ix = "ok" THEN RecentBodies ELSE {DefaultBody} :
                body = [u \in IndexUrls |-> IF u = RecentIndexUrl THEN b ELSE DefaultBody]
    /\ misdated = {}
    /\ IdleFrames

\* The caller has its result and keeps it, with the fetches made, to call
\* again.  The locals of the finished call are dropped with its frame; the
\* array of getBriefingsByDate is left to the next call's initialiser.
Remember ==
    /\ op # "idle"
    /\ ret # Pending
    /\ prev = NoPrev
    /\ prev' = [kind |-> "call", op |-> op, args |-> args, ret |-> ret, log |-> log]
    /\ op' = "idle"
    /\ args' = NoArgs
    /\ ret' = Pending
    /\ log' = <<>>
    /\ gbpc' = "none"
    /\ gbargs' = NoArgs
    /\ filename' = NoFile
    /\ gbret' = Pending
    /\ bdpc' = "none"
    /\ ixpc' = "none"
    /\ rbpc' = "none"
    /\ lbpc' = "none"
    /\ index' = Null
    /\ tasks' = <<>>
    /\ UNCHANGED <<pagevars, content, storage, inflight, briefings>>

\* The call after a remembered one is the same accessor with the same arguments.
SameCall == prev # NoPrev => (op' = prev.op /\ args' = prev.args)

CallGetBriefingAgain == CallGetBriefing /\ SameCall

CallGetBriefingsByDateAgain == CallGetBriefingsByDate /\ SameCall

CallGetBriefingIndexAgain == CallGetBriefingIndex /\ SameCall

CallGetRecentBriefingsAgain == CallGetRecentBriefings /\ SameCall

NextTwice ==
    \/ CallGetBriefingAgain
    \/ GBIssue
    \/ GBRespond
    \/ ReturnGetBriefing
    \/ CallGetBriefingsByDateAgain
    \/ BDAfterMorning
    \/ BDAfterAfternoon
    \/ BDIssue
    \/ BDRespond
    \/ CallGetBriefingIndexAgain
    \/ IXIssue
    \/ IXRespond
    \/ CallGetRecentBriefingsAgain
    \/ RBIndexRespond
    \/ RBStart
    \/ RBRespond
    \/ RBReturn
    \/ Remember
    \/ Finish

SpecTwice == InitTwice /\ [][NextTwice]_vars

\* ------------------------------------------------------------------ properties

\* The call of accessor o has completed and the caller holds its result.
Completed(o) == op = o /\ ret # Pending

\* getBriefing was given a bare date and no period.
BareNoPeriod == ~HasPeriodSuffix(args.dateOrKey) /\ args.period = NoPeriod

\* getBriefing was given a bare date and an explicit period.
BareWithPeriod == ~HasPeriodSuffix(args.dateOrKey) /\ args.period # NoPeriod

Exists(url) == storage[url] = "ok"

Absent(url) == storage[url] = "notok"

\* The locations of one file for the call's locale, in the order they are tried.
LocaleChain(key) ==
    IF args.locale = "en"
    THEN <<Url("briefing/en", key), Url("briefing", key)>>
    ELSE <<Url("briefing", key)>>

\* The candidates of the getBriefing call, in resolution order.
Candidates ==
    IF HasPeriodSuffix(args.dateOrKey) THEN LocaleChain(args.dateOrKey)
    ELSE IF args.period # NoPeriod THEN LocaleChain(WithPeriod(args.dateOrKey, args.period))
    ELSE LocaleChain(WithPeriod(args.dateOrKey, "afternoon"))
         \o LocaleChain(WithPeriod(args.dateOrKey, "morning"))
         \o LocaleChain(args.dateOrKey)

\* The document a file resolves to under the locale fallback: the one at the
\* locale path, else, with that one absent, the one at the default path.
Found(key) ==
    LET c == LocaleChain(key)
    IN IF Exists(c[1]) THEN Json(c[1])
       ELSE IF Len(c) = 2 /\ Absent(c[1]) /\ Exists(c[2]) THEN Json(c[2])
       ELSE Null

\* C1: when {date}-afternoon.json and {date}-morning.json both exist for the
\* call's locale (at the locale path, or for "en" at the default path with the
\* locale path absent), getBriefing(date) without a period returns the
\* afternoon document, never the morning one.
C1_PriorityLaw ==
    (Completed("getBriefing") /\ BareNoPeriod) =>
        LET afternoon == Found(WithPeriod(args.dateOrKey, "afternoon"))
            morning == Found(WithPeriod(args.dateOrKey, "morning"))
        IN (afternoon # Null /\ morning # Null) =>
              /\ ret = Value(afternoon)
              /\ ret.val.suffix = "-afternoon"

C1_Witness ==
    /\ Completed("getBriefing") /\ BareNoPeriod /\ args.locale = "en"
    /\ Exists(Url("briefing/en", WithPeriod(args.dateOrKey, "afternoon")))
    /\ Exists(Url("briefing/en", WithPeriod(args.dateOrKey, "morning")))
    /\ ret = Value(Json(Url("briefing/en", WithPeriod(args.dateOrKey, "afternoon"))))

\* C2: getBriefing never throws to its caller: whatever each candidate does
\* (2xx, non-2xx, transport exception, unparsable body) a call in progress can
\* always take its next step, a completed call holds a document or null, and
\* it holds null when every candidate fails.
C2_NeverThrows ==
    /\ op = "getBriefing" => ret.kind \in {"pending", "value"}
    /\ (op = "getBriefing" /\ ret = Pending) => ENABLED (GBIssue \/ GBRespond \/ ReturnGetBriefing)
    /\ Completed("getBriefing") =>
          /\ ret.val.kind \in {"doc", "null"}
          /\ (\A i \in 1..Len(Candidates) : ~Exists(Candidates[i])) => ret = Value(Null)

C2_Witness ==
    /\ Completed("getBriefing") /\ BareNoPeriod /\ args.locale = "en"
    /\ storage[Candidates[1]] = "notok"
    /\ storage[Candidates[2]] = "badjson"
    /\ log = <<Candidates[1], Candidates[2]>>
    /\ ret = Value(Null)

\* C3: getBriefing returns the document of the first candidate in resolution
\* order that responds 2xx and parses, also when a candidate before it threw
\* or had an unparsable body; null only when there is no such candidate.
C3_FirstSuccessWins ==
    Completed("getBriefing") =>
        LET c == Candidates
            good == {i \in 1..Len(c) : Exists(c[i])}
        IN IF good = {} THEN ret = Value(Null)
           ELSE ret = Value(Json(c[CHOOSE i \in good : \A j \in good : i <= j]))

\* C4 as stated: with briefing/en/{date}.json absent and briefing/{date}.json
\* present, getBriefing(date, undefined, "en") returns the default-locale
\* bare-date document whatever other files exist for the date.
C4_LocaleFallbackAnyFiles ==
    (Completed("getBriefing") /\ BareNoPeriod /\ args.locale = "en") =>
        ((Absent(Url("briefing/en", args.dateOrKey)) /\ Exists(Url("briefing", args.dateOrKey)))
            => ret = Value(Json(Url("briefing", args.dateOrKey))))

\* Every period-suffixed file of the date responds non-2xx at both paths.
NoPeriodFile ==
    \A p \in Paths, q \in Periods : Absent(Url(p, WithPeriod(args.dateOrKey, q)))

\* C4 amended: with briefing/en/{date}.json absent, briefing/{date}.json present
\* and every period-suffixed file of the date absent at both paths,
\* getBriefing(date, undefined, "en") returns the default-locale bare-date
\* document unchanged.
C4_LocaleFallbackLaw ==
    (Completed("getBriefing") /\ BareNoPeriod /\ args.locale = "en") =>
        ((/\ Absent(Url("briefing/en", args.dateOrKey))
          /\ Exists(Url("briefing", args.dateOrKey))
          /\ NoPeriodFile)
            => ret = Value(Json(Url("briefing", args.dateOrKey))))

C4_Witness ==
    /\ Completed("getBriefing") /\ BareNoPeriod /\ args.locale = "en"
    /\ Absent(Url("briefing/en", args.dateOrKey))
    /\ Exists(Url("briefing", args.dateOrKey))
    /\ NoPeriodFile
    /\ Len(log) = 6
    /\ ret = Value(Json(Url("briefing", args.dateOrKey)))

\* C5 as stated: one getBriefing call issues at most 4 fetches and one
\* getBriefingIndex call at most 2.
C5_AtMostFourFetches ==
    /\ op = "getBriefing" => Len(log) <= 4
    /\ op = "getBriefingIndex" => Len(log) <= 2

\* C5 amended: one getBriefing call issues at most 6 fetches (at most 3 unless
\* the locale is "en") and one getBriefingIndex call at most 2.
C5_BoundedFallback ==
    /\ op = "getBriefing" => Len(log) <= (IF args.locale = "en" THEN 6 ELSE 3)
    /\ op = "getBriefingIndex" => Len(log) <= 2

C5_Witness ==
    /\ Completed("getBriefing") /\ args.locale = "en"
    /\ Len(log) = 6
    /\ ret = Value(Null)

\* Every location of the file in the call's locale chain responds non-2xx.
ChainAbsent(key) == \A i \in 1..Len(LocaleChain(key)) : Absent(LocaleChain(key)[i])

\* No location of the file in the call's locale chain holds a valid document.
ChainMissing(key) == \A i \in 1..Len(LocaleChain(key)) : ~Exists(LocaleChain(key)[i])

\* C6 as stated: getBriefing(date, period) whose {date}-{period} candidate
\* fails at every locale path then fetches the bare {date} legacy file and
\* returns it if it exists.
C6_LegacyAfterExplicitPeriod ==
    (Completed("getBriefing") /\ BareWithPeriod) =>
        ((ChainAbsent(WithPeriod(args.dateOrKey, args.period)) /\ Found(args.dateOrKey) # Null) =>
            /\ ret = Value(Found(args.dateOrKey))
            /\ \E i \in 1..Len(log) : log[i].suffix = "")

\* C6 amended: the legacy fallback belongs to the call without a period only.
\* getBriefing(date, period) fetches nothing but {date}-{period} and returns
\* null when that candidate fails at every locale path, whether or not the
\* legacy file exists; getBriefing(date) whose afternoon and morning candidates
\* respond non-2xx at every locale path returns what the bare {date} file
\* resolves to under the locale fallback.
C6_LegacyOnlyWithoutPeriod ==
    /\ (op = "getBriefing" /\ BareWithPeriod) =>
          \A i \in 1..Len(log) : log[i].suffix = "-" \o args.period
    /\ (Completed("getBriefing") /\ BareWithPeriod) =>
          (ChainMissing(WithPeriod(args.dateOrKey, args.period)) => ret = Value(Null))
    /\ (Completed("getBriefing") /\ BareNoPeriod) =>
          ((ChainAbsent(WithPeriod(args.dateOrKey, "afternoon"))
            /\ ChainAbsent(WithPeriod(args.dateOrKey, "morning")))
              => ret = Value(Found(args.dateOrKey)))

C6_Witness ==
    /\ Completed("getBriefing") /\ BareWithPeriod /\ args.locale = "en"
    /\ ChainAbsent(WithPeriod(args.dateOrKey, args.period))
    /\ Exists(Url("briefing/en", args.dateOrKey))
    /\ Len(log) = 2
    /\ ret = Value(Null)

\* C7: getBriefingIndex("en") whose first fetch fails, by a non-2xx status or
\* by a transport exception, retries once at briefing/index.json and returns
\* null only if that second attempt is unsuccessful too.
C7_IndexRetryOnAnyFailure ==
    (Completed("getBriefingIndex") /\ args.locale = "en"
        /\ storage[Url("briefing/en", IndexKey)] \in {"notok", "throw"}) =>
            /\ log = <<Url("briefing/en", IndexKey), Url("briefing", IndexKey)>>
            /\ ret = Value(Null) => ~Exists(Url("briefing", IndexKey))

\* The accessors that take a locale.
LocaleOps == {"getBriefing", "getBriefingIndex", "getBriefingsByDate"}

\* C8 as stated: for every locale other than "ko" the first fetch goes to the
\* nested path briefing/{locale}/..., for "ko" to briefing/....
C8_AnyLocaleNested ==
    (op \in LocaleOps /\ log # <<>>) =>
        log[1].path = (IF args.locale = "ko" THEN "briefing" ELSE "briefing/" \o args.locale)

\* C8 amended: "en" is the one locale with a nested path.  For "en" every file
\* is fetched at briefing/en/... first and at briefing/... only right after
\* that fetch responded non-2xx; for every other locale tag, "ko" included,
\* every fetch goes to briefing/....
C8_LocalePartitionedPath ==
    (op \in LocaleOps) =>
        \A i \in 1..Len(log) :
            IF args.locale = "en"
            THEN \/ log[i].path = "briefing/en"
                 \/ /\ log[i].path = "briefing"
                    /\ i > 1
                    /\ log[i - 1] = [log[i] EXCEPT !.path = "briefing/en"]
                    /\ Absent(log[i - 1])
            ELSE log[i].path = "briefing"

C8_Witness ==
    /\ Completed("getBriefing") /\ args.locale = "en"
    /\ Len(log) = 2
    /\ log[1].path = "briefing/en"
    /\ log[2] = [log[1] EXCEPT !.path = "briefing"]
    /\ ret = Value(Json(log[2]))

\* C9: getBriefingsByDate returns a sequence, never null, of at most two
\* documents, and when the morning and the afternoon document are both found
\* the morning one is first and the afternoon one second.
C9_MorningBeforeAfternoon ==
    /\ op = "getBriefingsByDate" => ret.kind \in {"pending", "value"}
    /\ Completed("getBriefingsByDate") =>
          /\ ret.val.kind = "list"
          /\ Len(ret.val.items) <= 2
          /\ LET morning == Found(WithPeriod(args.dateOrKey, "morning"))
                 afternoon == Found(WithPeriod(args.dateOrKey, "afternoon"))
             IN (morning # Null /\ afternoon # Null) => ret.val.items = <<morning, afternoon>>
          /\ Len(ret.val.items) = 2 =>
                /\ ret.val.items[1].suffix = "-morning"
                /\ ret.val.items[2].suffix = "-afternoon"

C9_Witness ==
    /\ Completed("getBriefingsByDate") /\ args.locale = "en"
    /\ ret.val.kind = "list"
    /\ ret.val.items = <<Json(Url("briefing", WithPeriod(args.dateOrKey, "morning"))),
                         Json(Url("briefing/en", WithPeriod(args.dateOrKey, "afternoon")))>>

\* C10: getBriefingsByDate(date) returns the empty sequence when no period
\* file and no legacy file exists for the date, and exactly the legacy
\* document when only the legacy file exists.
C10_EmptyOrLegacyOnly ==
    Completed("getBriefingsByDate") =>
        LET noPeriodFile == /\ ChainMissing(WithPeriod(args.dateOrKey, "morning"))
                            /\ ChainMissing(WithPeriod(args.dateOrKey, "afternoon"))
        IN /\ ret.val.kind = "list"
           /\ (noPeriodFile /\ ChainMissing(args.dateOrKey)) => ret.val.items = <<>>
           /\ (noPeriodFile /\ Found(args.dateOrKey) # Null) =>
                 ret.val.items = <<Found(args.dateOrKey)>>

C10_Witness ==
    /\ Completed("getBriefingsByDate") /\ args.locale = "en"
    /\ ChainMissing(WithPeriod(args.dateOrKey, "morning"))
    /\ ChainMissing(WithPeriod(args.dateOrKey, "afternoon"))
    /\ Absent(Url("briefing/en", args.dateOrKey))
    /\ ret.val.kind = "list"
    /\ ret.val.items = <<Json(Url("briefing", args.dateOrKey))>>

\* C11: getBriefingsByDate fetches the bare-date legacy file only after the
\* morning and the afternoon lookup both returned null; when a period document
\* was found the legacy URL is never fetched and the legacy document is not in
\* the result, and a legacy document in the result is its only element.
C11_LegacyGating ==
    op = "getBriefingsByDate" =>
        LET morning == Found(WithPeriod(args.dateOrKey, "morning"))
            afternoon == Found(WithPeriod(args.dateOrKey, "afternoon"))
            legacyAt == {i \in 1..Len(log) : log[i].suffix = ""}
        IN /\ \A i \in legacyAt :
                 /\ morning = Null /\ afternoon = Null
                 /\ \E j \in 1..(i - 1) : log[j].suffix = "-morning"
                 /\ \E j \in 1..(i - 1) : log[j].suffix = "-afternoon"
                 /\ bdpc \in {"legacy", "legacyFb", "done"}
           /\ (morning # Null \/ afternoon # Null) => legacyAt = {}
           /\ Completed("getBriefingsByDate") =>
                 /\ ret.val.kind = "list"
                 /\ (morning # Null \/ afternoon # Null) =>
                       \A k \in 1..Len(ret.val.items) : ret.val.items[k].suffix # ""
                 /\ (\E k \in 1..Len(ret.val.items) : ret.val.items[k].suffix = "") =>
                       Len(ret.val.items) = 1

C11_Witness ==
    /\ Completed("getBriefingsByDate") /\ args.locale = "en"
    /\ Exists(Url("briefing/en", args.dateOrKey))
    /\ Exists(Url("briefing", args.dateOrKey))
    /\ ret.val.kind = "list"
    /\ ret.val.items = <<Json(Url("briefing", WithPeriod(args.dateOrKey, "afternoon")))>>
    /\ \A i \in 1..Len(log) : log[i].suffix # ""

\* C19: within one call of getBriefingIndex, getBriefing or getBriefingsByDate
\* (the getBriefing calls it makes included) no URL is fetched twice, for every
\* locale, key and pattern of failures.
C19_NoSameUrlRetry ==
    op \in LocaleOps => \A i, j \in 1..Len(log) : i # j => log[i] # log[j]

C19_Witness ==
    /\ Completed("getBriefingsByDate") /\ args.locale = "en"
    /\ Len(log) = 6
    /\ Cardinality({log[i] : i \in 1..Len(log)}) = 6
    /\ ret = Value(List(<<>>))


\* ------------------------------------------------------------------ C20

\* The index document the result of getBriefingIndex was built from: the one
\* at the last URL fetched.
IndexSource == body[log[Len(log)]]

\* C20: getBriefingIndex normalisation.  When the last fetch answered 2xx with
\* JSON, the result is an index whose dates are the document's available_dates
\* (the empty sequence when the field is absent), whose latest is the explicit
\* latest field when one is provided (present, not null, not empty), otherwise
\* the first element of dates, otherwise null, and whose dates_detail and
\* total_briefings are the document's, absent when absent there.
C20_IndexNormalisation ==
    (Completed("getBriefingIndex") /\ storage[log[Len(log)]] = "ok") =>
        LET data == IndexSource
            result == ret.val
            dates == IF data.available_dates = <<>> THEN <<>> ELSE data.available_dates[1]
            explicit == data.latest # <<>> /\ data.latest[1] # "null" /\ data.latest[1] # ""
        IN /\ ret.kind = "value"
           /\ result.kind = "index"
           /\ result.dates = dates
           /\ explicit => result.latest = data.latest[1]
           /\ (~explicit /\ dates # <<>>) => result.latest = dates[1]
           /\ (~explicit /\ dates = <<>>) => result.latest = "null"
           /\ result.dates_detail = data.dates_detail
           /\ result.total_briefings = data.total_briefings

\* C20 witness: an index document without a latest field and with two dates
\* and a detail field was fetched; the result names the first date as latest.
C20_Witness ==
    /\ Completed("getBriefingIndex")
    /\ storage[log[Len(log)]] = "ok"
    /\ IndexSource.latest = None
    /\ IndexSource.available_dates = Some(<<DateName[2], DateName[1]>>)
    /\ IndexSource.dates_detail = Some("detail")
    /\ ret.val.latest = DateName[2]
    /\ ret.val.dates_detail = Some("detail")

\* ------------------------------------------------------------------ C12

\* The dates of the index getRecentBriefings read.
RecentIndexDates == IF index = Null THEN <<>> ELSE index.dates

\* C12: getRecentBriefings count bound.  For every days, negative ones
\* included, and every index, the number of returned briefings is at most
\* min(days, index.dates.length); a bound below zero admits no briefing.
C12_CountBound ==
    Completed("getRecentBriefings") =>
        /\ ret.kind = "value"
        /\ Len(ret.val.items) <= Max(Min(args.days, Len(RecentIndexDates)), 0)

\* ------------------------------------------------------------------ C13

\* C13: getRecentBriefings membership.  Whatever the storage holds, every
\* briefing in the result has a date field that is one of index.dates.
C13_DatesFromIndex ==
    Completed("getRecentBriefings") =>
        /\ ret.kind = "value"
        /\ \A k \in 1..Len(ret.val.items) :
              \E i \in 1..Len(RecentIndexDates) : ret.val.items[k].date = RecentIndexDates[i]

\* ------------------------------------------------------------------ C14

\* The positions of the per-date calls that resolved to a document.
Resolved == {i \in 1..Len(tasks) : tasks[i].ret.val # Null}

\* C14: getRecentBriefings ordering.  The per-date calls are those of the
\* first `days` index dates, one per date and in the index's order; the result
\* holds the documents of the calls that resolved to non-null, in that same
\* order, whichever response came first.
C14_IndexOrder ==
    Completed("getRecentBriefings") =>
        /\ ret.kind = "value"
        /\ args.days >= 0 => Len(tasks) = Min(args.days, Len(RecentIndexDates))
        /\ Len(tasks) <= Len(RecentIndexDates)
        /\ \A i \in 1..Len(tasks) : tasks[i].a.dateOrKey = Bare(RecentIndexDates[i])
        /\ Len(ret.val.items) = Cardinality(Resolved)
        /\ \A i \in Resolved :
              /\ tasks[i].ret.val.name = RecentIndexDates[i]
              /\ ret.val.items[Cardinality({j \in Resolved : j <= i})] = tasks[i].ret.val

\* C14 witness: the call of the second index date settled before the call of
\* the first, both with a document, and the result is in the index's order.
C14_Witness ==
    /\ Completed("getRecentBriefings")
    /\ Len(tasks) = 2
    /\ tasks[2].rank = 1
    /\ tasks[1].rank = 2
    /\ Resolved = {1, 2}
    /\ Len(ret.val.items) = 2
    /\ ret.val.items[1].name = RecentIndexDates[1]
    /\ ret.val.items[2].name = RecentIndexDates[2]

\* ------------------------------------------------------------------ C15

\* index.dates of the index getBriefingIndex returns for the default locale:
\* read off the stored index document; no dates when the index is null.
StoredIndexDates ==
    IF storage[RecentIndexUrl] = "ok"
    THEN (IF body[RecentIndexUrl].available_dates = <<>> THEN <<>>
          ELSE body[RecentIndexUrl].available_dates[1])
    ELSE <<>>

Listed(date) == \E i \in 1..Len(StoredIndexDates) : StoredIndexDates[i] = date

\* The default-locale files of a date in the order getBriefing(date) tries them.
DateFiles(date) ==
    <<Url("briefing", WithPeriod(Bare(date), "afternoon")),
      Url("briefing", WithPeriod(Bare(date), "morning")),
      Url("briefing", Bare(date))>>

\* The file of the date that getBriefing(date) reaches and can return: a valid
\* document with every file before it answering non-2xx.
Reached(date) ==
    {k \in 1..3 : /\ Exists(DateFiles(date)[k])
                  /\ \A j \in 1..(k - 1) : Absent(DateFiles(date)[j])}

\* getBriefing(date) with no period and the default locale has returned.
DateCall == Completed("getBriefing") /\ BareNoPeriod /\ args.locale = "ko"

\* C15 as stated: for every date listed in index.dates, getBriefing(date)
\* returns a non-null document.
C15_IndexCoverage ==
    (DateCall /\ Listed(args.dateOrKey.name)) =>
        (ret.kind = "value" /\ ret.val # Null)

\* C15 amended: for a date listed in index.dates, getBriefing(date) returns a
\* non-null document exactly when the storage holds one the chain reaches, the
\* first of the afternoon, morning and bare file that does not answer non-2xx
\* being a valid document, and then returns that document; a listed date
\* without such a file yields null.
C15_ListedDateResolves ==
    (DateCall /\ Listed(args.dateOrKey.name)) =>
        LET date == args.dateOrKey.name
        IN /\ ret.kind = "value"
           /\ (ret.val # Null) <=> (Reached(date) # {})
           /\ \A k \in Reached(date) : ret.val = Json(DateFiles(date)[k])

\* C15 witness: the index lists the date and none of its three files is
\* stored; getBriefing(date) has returned null after trying the three.
C15_Witness ==
    /\ DateCall
    /\ Listed(args.dateOrKey.name)
    /\ \A k \in 1..3 : Absent(DateFiles(args.dateOrKey.name)[k])
    /\ Len(log) = 3
    /\ ret = Value(Null)

\* ------------------------------------------------------------------ C16

\* C16 as stated: for every date absent from index.dates and without a bare
\* {date}.json file, getBriefing(date) returns null.
C16_IndexExclusivity ==
    (DateCall /\ ~Listed(args.dateOrKey.name)) =>
        (~Exists(DateFiles(args.dateOrKey.name)[3]) => ret = Value(Null))

\* C16 amended: getBriefing never reads the index.  For a date absent from
\* index.dates it returns null when none of the afternoon, morning and bare
\* file is a valid document, and otherwise what the chain reaches: the first of
\* the three that does not answer non-2xx, if that one is a valid document.
C16_UnlistedDateLaw ==
    (DateCall /\ ~Listed(args.dateOrKey.name)) =>
        LET date == args.dateOrKey.name
        IN /\ ret.kind = "value"
           /\ (\A k \in 1..3 : ~Exists(DateFiles(date)[k])) => ret.val = Null
           /\ Reached(date) = {} => ret.val = Null
           /\ \A k \in Reached(date) : ret.val = Json(DateFiles(date)[k])

\* C16 witness: the index is there and does not list the date, the date has
\* no bare file and a morning document; getBriefing(date) has returned it.
C16_Witness ==
    /\ DateCall
    /\ storage[RecentIndexUrl] = "ok"
    /\ ~Listed(args.dateOrKey.name)
    /\ Absent(DateFiles(args.dateOrKey.name)[1])
    /\ Absent(DateFiles(args.dateOrKey.name)[3])
    /\ ret = Value(Json(DateFiles(args.dateOrKey.name)[2]))

\* ------------------------------------------------------------------ C17

\* The scenario's storage: the index lists 2025-01-02 and 2025-01-01 with
\* latest 2025-01-02, and 2025-01-02-morning.json is the only document.
Scenario ==
    /\ storage[RecentIndexUrl] = "ok"
    /\ StoredIndexDates = <<"2025-01-02", "2025-01-01">>
    /\ body[RecentIndexUrl].latest = Some("2025-01-02")
    /\ \A u \in DocUrls :
          IF u = DateFiles("2025-01-02")[2] THEN Exists(u) /\ u \notin misdated
          ELSE Absent(u)

\* C17: in the scenario getBriefing("2025-01-02") returns the morning document
\* after the afternoon candidate failed, and getBriefing("2025-01-01") returns
\* null after the afternoon, morning and bare candidates all failed.
C17_Scenario ==
    (Scenario /\ DateCall) =>
        /\ args.dateOrKey.name = "2025-01-02" =>
              /\ ret = Value(Json(DateFiles("2025-01-02")[2]))
              /\ ret.val.suffix = "-morning" /\ ret.val.date = "2025-01-02"
              /\ log = SubSeq(DateFiles("2025-01-02"), 1, 2)
        /\ args.dateOrKey.name = "2025-01-01" =>
              /\ ret = Value(Null)
              /\ log = DateFiles("2025-01-01")

\* C17 witness: in the scenario getBriefing("2025-01-02") has returned the
\* morning document after two fetches.
C17_Witness ==
    /\ Scenario
    /\ DateCall
    /\ args.dateOrKey.name = "2025-01-02"
    /\ Len(log) = 2
    /\ ret = Value(Json(DateFiles("2025-01-02")[2]))

\* ------------------------------------------------------------------ C18

\* The second of two calls of one accessor with the same arguments has returned.
Repeated == prev # NoPrev /\ op # "idle" /\ ret # Pending

\* The fetches of a log for one file name (a date, or the index), in order.
FetchesOf(l, name) ==
    LET ForName(u) == u.name = name
    IN SelectSeq(l, ForName)

\* C18 as stated: a call repeated with identical arguments against unchanged
\* storage yields the same result and the same sequence of fetched URLs.
C18_SameResultSameFetches ==
    Repeated => (ret = prev.ret /\ log = prev.log)

\* C18 amended: the repeated call yields the same result.  For
\* getBriefingIndex, getBriefing and getBriefingsByDate it fetches the same
\* URLs in the same order.  For getRecentBriefings it fetches the same number
\* of URLs, the same URLs in the same order for the index and for each date,
\* and the same first fetches up to the first fetch of each date; the order
\* of the later fetches of different dates follows the arrival of the
\* responses.
C18_RepeatLaw ==
    Repeated =>
        /\ op = prev.op /\ args = prev.args
        /\ ret = prev.ret
        /\ op # "getRecentBriefings" => log = prev.log
        /\ op = "getRecentBriefings" =>
              /\ Len(log) = Len(prev.log)
              /\ \A name \in IndexDates \cup {IndexKey.name} :
                    FetchesOf(log, name) = FetchesOf(prev.log, name)
              /\ \A i \in 1..Min(Len(log), 1 + Len(tasks)) : log[i] = prev.log[i]

\* C18 witness: getRecentBriefings was repeated over two index dates; the
\* results are the same two briefings and the fetches came in another order.
C18_Witness ==
    /\ Repeated
    /\ op = "getRecentBriefings"
    /\ ret = prev.ret
    /\ Len(ret.val.items) = 2
    /\ log # prev.log

\* ------------------------------------------------------------------ C21

\* C21: getBriefingIndex never throws.  For every locale and whatever its
\* fetches do (non-2xx, transport exception, unparsable body, a body that
\* parses to null), a call in progress can always take its next step, and a
\* completed call holds a BriefingIndex or null, never an exception; it holds
\* null when the last fetch did not deliver an object.
C21_IndexNeverThrows ==
    /\ op = "getBriefingIndex" => ret.kind \in {"pending", "value"}
    /\ (op = "getBriefingIndex" /\ ret = Pending) => ENABLED (IXIssue \/ IXRespond)
    /\ Completed("getBriefingIndex") =>
          /\ ret.val.kind \in {"index", "null"}
          /\ storage[log[Len(log)]] # "ok" => ret = Value(Null)

\* C21 witness: for locale "en" the English index answered non-2xx and the
\* default index answered 2xx with a body that parses to null; the call has
\* returned null.
C21_Witness ==
    /\ Completed("getBriefingIndex")
    /\ args.locale = "en"
    /\ Len(log) = 2
    /\ storage[log[1]] = "notok"
    /\ storage[log[2]] = "nullbody"
    /\ ret = Value(Null)

\* ------------------------------------------------------------------ C22

\* C22: strictly sequential fallback in getBriefing.  The fetches of a call
\* are a prefix of its candidates in the fixed order locale-afternoon,
\* default-afternoon, locale-morning, default-morning, locale-bare,
\* default-bare (the default-locale steps only where the locale has a path of
\* its own); every fetch but the last has been answered, and answered non-2xx,
\* before the next one went out; at most one fetch is in flight, the last one.
C22_SequentialFallback ==
    op = "getBriefing" =>
        /\ Len(log) <= Len(Candidates)
        /\ \A i \in 1..Len(log) : log[i] = Candidates[i]
        /\ \A i \in 1..(Len(log) - 1) : log[i] \notin inflight /\ Absent(log[i])
        /\ Cardinality(inflight) <= 1
        /\ \A u \in inflight : log # <<>> /\ u = log[Len(log)]

\* C22 witness: getBriefing(date) for "en" has its sixth fetch, the
\* default-locale bare file, in flight after five non-2xx answers.
C22_Witness ==
    /\ op = "getBriefing"
    /\ BareNoPeriod
    /\ args.locale = "en"
    /\ Len(log) = 6
    /\ inflight = {Url("briefing", args.dateOrKey)}
    /\ \A i \in 1..5 : Absent(log[i])

\* ------------------------------------------------------------------ C23

\* The number of fetches getRecentBriefings made for its index.
IndexFetches == Cardinality({i \in 1..Len(log) : log[i].name = IndexKey.name})

\* The first candidate of getBriefing(date) for the call's locale.
FirstFetch(date) ==
    Url(getBriefingPath(args.locale), WithPeriod(Bare(date), "afternoon"))

\* C23: getRecentBriefings concurrency.  Once the per-date lookups exist,
\* the first fetch of every selected date has been issued, right after the
\* index fetches and in the index's order, whether or not any lookup has
\* completed; every lookup that has not completed has a fetch in flight; and
\* getRecentBriefings has a result only when every per-date lookup has
\* completed and no fetch is in flight.
C23_ConcurrentLookups ==
    op = "getRecentBriefings" =>
        /\ \A i \in 1..Len(tasks) :
              /\ IndexFetches + i <= Len(log)
              /\ log[IndexFetches + i] = FirstFetch(RecentIndexDates[i])
        /\ \A i \in 1..Len(tasks) :
              tasks[i].pc # "done" => TaskUrl(tasks[i]) \in inflight
        /\ ret # Pending =>
              /\ \A i \in 1..Len(tasks) : tasks[i].pc = "done" /\ tasks[i].ret # Pending
              /\ inflight = {}

\* C23 witness: the index gave two dates, the afternoon fetches of both are
\* in flight and neither lookup has completed.
C23_Witness ==
    /\ op = "getRecentBriefings"
    /\ rbpc = "all"
    /\ Len(tasks) = 2
    /\ Settled(tasks) = 0
    /\ inflight = {FirstFetch(RecentIndexDates[1]), FirstFetch(RecentIndexDates[2])}
    /\ ret = Pending

\* ------------------------------------------------------------------ C24

\* C24: period-suffixed precedence over legacy.  When the bare-date file and
\* at least one period-suffixed file of the date exist for the call's locale,
\* getBriefing(date) with no period returns a period-suffixed document and
\* never fetches the bare-date file.
C24_PeriodOverLegacy ==
    (Completed("getBriefing") /\ BareNoPeriod) =>
        ((/\ Found(args.dateOrKey) # Null
          /\ \/ Found(WithPeriod(args.dateOrKey, "afternoon")) # Null
             \/ Found(WithPeriod(args.dateOrKey, "morning")) # Null)
         => /\ ret.kind = "value"
            /\ ret.val.kind = "doc"
            /\ ret.val.suffix \in {"-afternoon", "-morning"}
            /\ \A i \in 1..Len(log) : log[i].suffix # "")

\* ------------------------------------------------------------------ C25

\* The path of the call's locale and the default-locale path.
LocalePath == IF args.locale = "en" THEN "briefing/en" ELSE "briefing"

\* C25: pre-suffixed key.  When dateOrKey ends with -morning or -afternoon,
\* getBriefing fetches that filename at the locale path first; a second fetch
\* is made only for a locale other than the default, only after the first
\* answered non-2xx, and is the same filename at the default-locale path;
\* there is no third fetch; the period argument, agreeing with the suffix or
\* not, changes neither the fetches nor the result.
C25_PreSuffixedKey ==
    (op = "getBriefing" /\ HasPeriodSuffix(args.dateOrKey)) =>
        /\ Len(log) <= 2
        /\ Len(log) >= 1 => log[1] = Url(LocalePath, args.dateOrKey)
        /\ Len(log) = 2 =>
              /\ args.locale # "ko"
              /\ Absent(log[1])
              /\ log[1] \notin inflight
              /\ log[2] = Url("briefing", args.dateOrKey)
        /\ ret # Pending =>
              /\ Len(log) >= 1
              /\ (args.locale = "en" /\ Absent(log[1])) => Len(log) = 2
              /\ ret = Value(Found(args.dateOrKey))

\* C25 witness: getBriefing("{date}-morning", "afternoon", "en") fetched the
\* morning file at the English path, then at the default path, and returned
\* the default-locale morning document.
C25_Witness ==
    /\ Completed("getBriefing")
    /\ args.dateOrKey.suffix = "-morning"
    /\ args.period = "afternoon"
    /\ args.locale = "en"
    /\ log = <<Url("briefing/en", args.dateOrKey), Url("briefing", args.dateOrKey)>>
    /\ ret = Value(Json(Url("briefing", args.dateOrKey)))

\* ------------------------------------------------------------------ C26

\* The latest date of the default-locale index as getBriefingIndex resolves
\* it from the stored document; "null" when the index is null or has none.
StoredLatest ==
    LET b == body[RecentIndexUrl]
    IN IF storage[RecentIndexUrl] # "ok" THEN "null"
       ELSE IF b.latest # <<>> /\ b.latest[1] \notin {"null", ""} THEN b.latest[1]
       ELSE IF b.available_dates # <<>> /\ b.available_dates[1] # <<>>
       THEN b.available_dates[1][1]
       ELSE "null"

\* What getBriefing(date) returns and fetches when every file is a valid
\* document or answers non-2xx: the first of the date's files that is there.
DocOf(date) ==
    IF Reached(date) = {} THEN Null
    ELSE Json(DateFiles(date)[CHOOSE k \in Reached(date) : TRUE])

ChainOf(date) ==
    IF Reached(date) = {} THEN DateFiles(date)
    ELSE SubSeq(DateFiles(date), 1, CHOOSE k \in Reached(date) : TRUE)

\* C26: getLatestBriefing.  When the index resolves with a latest date, the
\* result is what getBriefing(latest) returns, null included, and nothing is
\* fetched but the index and the candidates of that date.  When the index is
\* null or has no latest date, today's date is tried, and yesterday's date
\* only if today's gave null; the result is the first document of the two,
\* or null.
C26_LatestBriefing ==
    Completed("getLatestBriefing") =>
        IF StoredLatest # "null"
        THEN /\ ret = Value(DocOf(StoredLatest))
             /\ log = <<RecentIndexUrl>> \o ChainOf(StoredLatest)
        ELSE IF DocOf(Today) # Null
        THEN /\ ret = Value(DocOf(Today))
             /\ log = <<RecentIndexUrl>> \o ChainOf(Today)
        ELSE /\ ret = Value(DocOf(Yesterday))
             /\ log = <<RecentIndexUrl>> \o ChainOf(Today) \o ChainOf(Yesterday)

\* C26 witness: the index names an older date as latest, that date has no
\* file while today has one; getLatestBriefing has returned null after the
\* index and the three candidates of the latest date.
C26_Witness ==
    /\ Completed("getLatestBriefing")
    /\ StoredLatest = DateName[3]
    /\ DocOf(DateName[3]) = Null
    /\ DocOf(Today) # Null
    /\ ret = Value(Null)
    /\ log = <<RecentIndexUrl>> \o DateFiles(DateName[3])

\* ------------------------------------------------------------------ C27

\* The document of a file for locale "en" as the claim has it: the English
\* one when the English file exists, otherwise the default-locale one.
EnglishOrDefault(key) ==
    IF Exists(Url("briefing/en", key)) THEN Json(Url("briefing/en", key))
    ELSE IF Exists(Url("briefing", key)) THEN Json(Url("briefing", key))
    ELSE Null

\* C27: per-period locale choice in getBriefingsByDate.  For locale "en" the
\* morning element and the afternoon element are each the English document
\* when the English file exists and otherwise the default-locale document,
\* each decided on its own; the bare-date file is fetched only when both
\* periods are missing in both locales.
C27_PerPeriodLocale ==
    (Completed("getBriefingsByDate") /\ args.locale = "en") =>
        LET morning == EnglishOrDefault(WithPeriod(args.dateOrKey, "morning"))
            afternoon == EnglishOrDefault(WithPeriod(args.dateOrKey, "afternoon"))
            periods == (IF morning = Null THEN <<>> ELSE <<morning>>)
                       \o (IF afternoon = Null THEN <<>> ELSE <<afternoon>>)
        IN /\ ret.kind = "value"
           /\ periods # <<>> => ret.val.items = periods
           /\ (\E i \in 1..Len(log) : log[i].suffix = "") => periods = <<>>

\* ------------------------------------------------------------------ C30

\* C30: loading always ends.  In the date-selecting BriefingPage, whatever
\* the index is (null, without dates, with dates) and whatever
\* getBriefingsByDate returns, a page that is loading eventually is not, and
\* whenever loading is false either error is set or briefings is non-empty.
C30_LoadingEnds ==
    /\ loading ~> ~loading
    /\ [](~loading => (error # NoError \/ pageBriefings # <<>>))

\* C30 witness: the user picked the second date of the index, which has no
\* document; loading has ended with the error set and briefings empty.
C30_Witness ==
    /\ ppc = "shown"
    /\ ~loading
    /\ Len(availableDates) = 2
    /\ selectedDate = availableDates[2]
    /\ error = NoDataForDateError
    /\ pageBriefings = <<>>

\* ------------------------------------------------------------------ C29

\* C29: citation highlight timers.  While the timer of the latest click is
\* pending, the highlight is on the id of that click: no timer of an earlier
\* click has cleared it.
C29_HighlightHeld ==
    \A k \in 1..Len(timers) :
        timers[k].click = clicks => highlightedId = timers[k].id

\* ------------------------------------------------------------------ requests of the page

\* While getBriefingsByDate is awaited the page is loading and the briefing
\* view with its date select is not rendered: the selected date cannot change
\* while a request is in flight, and the request in flight is the one of the
\* selected date.
PageOneRequest ==
    /\ ppc = "briefings" =>
          /\ loading
          /\ ~Rendered
          /\ ~ENABLED PageSelectDate
          /\ op = "getBriefingsByDate"
          /\ args.dateOrKey = Bare(selectedDate)
    /\ Rendered => (op = "idle" /\ inflight = {})

====
